---- MODULE Spec2Model ----
(***************************************************************************)
(* Model of the Hormuud channel handler's outbound path                    *)
(* (handlers/hormuud/hormuud.go): SendMsg and FetchToken, the Redis token  *)
(* cache they share, and the two provider endpoints they call.             *)
(*                                                                         *)
(* One SendMsg invocation runs per outbound message.  An invocation is     *)
(* split at its blocking I/O calls (Redis GET, token POST, Redis SETEX,    *)
(* one POST per message part), the only points at which concurrent         *)
(* invocations can observe each other.  What the network and Redis answer  *)
(* is an input of the step that makes the call.                            *)
(***************************************************************************)
EXTENDS Integers, Sequences, FiniteSets, TLC

\* ---------------------------------------------------------------- bounds
Msgs == {"m1", "m2"}            \* outbound messages, one SendMsg invocation each
Channels == {"c1", "c2"}        \* channel UUIDs
Tokens == {"t1", "t2"}          \* non-empty access tokens the provider can hand out
MessageIDs == {"x1", "x2"}      \* non-empty Data.MessageID values of send responses
MaxParts == 2                   \* most parts a message is split into
TickStep == 2670                \* seconds that pass in one step of the clock

\* ------------------------------------------------------- program constants
\* The expiration with the safety margin left out: the full 90 minutes.
TokenTTL_NinetyMinutes == 90 * 60

TokenTTL == 5340                \* SETEX expiration, seconds

\* The limit with an off-by-one: parts one character too long.
maxMsgLength_OneMore == 160 + 1

maxMsgLength == 160             \* most characters of a part
MsgErrored == "E"               \* courier.MsgErrored
MsgWired == "W"                 \* courier.MsgWired

NoErr == ""                     \* a nil error
ErrUsername == "Missing 'username' config for HM channel"
ErrPassword == "Missing 'password' config for HM channel"
ErrTokenRequest == "error making token request"
ErrTokenParse == "error getting access_token from response"
ErrNoToken == "no access token returned"
ErrHTTP == "http request failed"
ErrWrap == "unable to fetch token: "

\* One key for every channel.
CacheKey_NoChannel(channel) == "hm_token"

\* The key of one channel used for every channel.
CacheKey_FirstChannel(channel) == "hm_token_c1"

\* The Redis key of a channel's token.
CacheKey(channel) == "hm_token_" \o channel

Keys == {CacheKey(c) : c \in Channels}

\* Channel configurations: the values of the username and password keys.
Configs == [username : {"", "u"}, password : {"", "p"}]

VARIABLES
    pc,         \* pc[m]: where m's SendMsg invocation stands
    chan,       \* chan[m]: msg.Channel().UUID()
    cfg,        \* cfg[m]: the config of msg.Channel()
    nparts,     \* nparts[m]: len(parts)
    parts,      \* parts[m]: the parts of the message text, in order
    idx,        \* idx[m]: the loop index i of the part sent next (0-based)
    token,      \* token[m]: SendMsg's / FetchToken's local token
    tokenRR,    \* tokenRR[m]: FetchToken's rr, <<>> when nil
    status,     \* status[m]: the MsgStatus being accumulated
    result,     \* result[m]: what SendMsg returned, <<>> until it returns
    cache,      \* the Redis store: key -> [tok, ttl], tok = "" when absent
    wire,       \* wire[m]: the HTTP exchanges the invocation made, in order
    redis,      \* redis[m]: the Redis commands the invocation issued, in order
    written,    \* written[k][t]: seconds since t was last stored under key k,
                \*   TokenTTL once that long ago or if never
    latest      \* latest[k]: the token stored last under key k, "" if none

vars ==
    <<pc, chan, cfg, nparts, parts, idx, token, tokenRR, status, result, cache, wire, redis,
      written, latest>>

\* A RequestResponse: which endpoint, which part (0-based, -1 for the token
\* endpoint), whether the exchange succeeded, and what the body carried.
\* auth is the bearer token of the request's Authorization header.
TokenRR(ok, field, tok) ==
    [url |-> "token", part |-> -1, auth |-> "",
     ok |-> ok, field |-> field, value |-> tok]
SendRR(part, auth, ok, id) ==
    [url |-> "send", part |-> part, auth |-> auth,
     ok |-> ok, field |-> id # "", value |-> id]

\* What the token endpoint can answer: no answer (transport failure), a body
\* without access_token, one with an empty access_token, one with a token.
TokenResponses ==
    {TokenRR(FALSE, FALSE, ""), TokenRR(TRUE, FALSE, ""), TokenRR(TRUE, TRUE, "")}
    \cup {TokenRR(TRUE, TRUE, t) : t \in Tokens}

\* What the send endpoint can answer for a part: no answer, or a body with
\* or without Data.MessageID.
SendResponses(part, auth) ==
    {SendRR(part, auth, FALSE, "")}
    \cup {SendRR(part, auth, TRUE, id) : id \in MessageIDs \cup {""}}

NoEntry == [tok |-> "", ttl |-> 0]

NewMsgStatus == [state |-> MsgErrored, externalID |-> "", logs |-> <<>>]

Init ==
    /\ pc = [m \in Msgs |-> "idle"]
    /\ chan = [m \in Msgs |-> "c1"]
    /\ cfg = [m \in Msgs |-> [username |-> "", password |-> ""]]
    /\ nparts = [m \in Msgs |-> 0]
    /\ parts = [m \in Msgs |-> <<>>]
    /\ idx = [m \in Msgs |-> 0]
    /\ token = [m \in Msgs |-> ""]
    /\ tokenRR = [m \in Msgs |-> <<>>]
    /\ status = [m \in Msgs |-> NewMsgStatus]
    /\ result = [m \in Msgs |-> <<>>]
    /\ cache = [k \in Keys |-> NoEntry]
    /\ wire = [m \in Msgs |-> <<>>]
    /\ redis = [m \in Msgs |-> <<>>]
    /\ written = [k \in Keys |-> [t \in Tokens |-> TokenTTL]]
    /\ latest = [k \in Keys |-> ""]

\* ------------------------------------------------------------- Redis
\* GET: the stored string while the entry lives, nothing once it expired or
\* when the connection fails (redis.String then yields "" and an error).
RedisGet(entry, up) == IF up /\ entry.ttl > 0 THEN entry.tok ELSE ""

\* RedisSetex as a write that keeps an entry still alive (SET NX EX).
RedisSetex_IfAbsent(store, key, ttl, value, up) ==
    IF up /\ store[key].ttl = 0
    THEN [store EXCEPT ![key] = [tok |-> value, ttl |-> ttl]]
    ELSE store

\* SETEX key ttl value: replaces the entry; a failed command changes nothing.
RedisSetex(store, key, ttl, value, up) ==
    IF up THEN [store EXCEPT ![key] = [tok |-> value, ttl |-> ttl]] ELSE store

GetCmd(key, up, reply) ==
    [cmd |-> "GET", key |-> key, ttl |-> 0, value |-> reply, up |-> up]
SetexCmd(key, ttl, value, up) ==
    [cmd |-> "SETEX", key |-> key, ttl |-> ttl, value |-> value, up |-> up]

\* Redis expires entries on its own: ttl counts down with the clock.
Expire(entry, d) ==
    IF entry.ttl > d THEN [entry EXCEPT !.ttl = entry.ttl - d] ELSE NoEntry

\* The time since a write, d seconds on; not counted past TokenTTL.
Elapsed(since, d) == IF since + d < TokenTTL THEN since + d ELSE TokenTTL

\* ------------------------------------------------------------- FetchToken
\* What FetchToken returns: (token, rr, err).
FetchResult(tok, rr, err) == [token |-> tok, rr |-> rr, err |-> err]

\* ConfigError with the password checked before the username.
ConfigError_PasswordFirst(conf) ==
    IF conf.password = "" THEN ErrPassword
    ELSE IF conf.username = "" THEN ErrUsername
    ELSE NoErr

\* The checks of the channel's credentials, username first.
ConfigError(conf) ==
    IF conf.username = "" THEN ErrUsername
    ELSE IF conf.password = "" THEN ErrPassword
    ELSE NoErr

\* TokenFromResponse with the test for an empty access_token left out.
TokenFromResponse_NoEmptyCheck(rr) ==
    IF ~rr.ok THEN FetchResult("", <<rr>>, ErrTokenRequest)
    ELSE IF ~rr.field THEN FetchResult("", <<rr>>, ErrTokenParse)
    ELSE FetchResult(rr.value, <<rr>>, NoErr)

\* What FetchToken returns once the token exchange rr is back, short of the
\* cache write: the error checks on the exchange and on access_token.
TokenFromResponse(rr) ==
    IF ~rr.ok THEN FetchResult("", <<rr>>, ErrTokenRequest)
    ELSE IF ~rr.field THEN FetchResult("", <<rr>>, ErrTokenParse)
    ELSE IF rr.value = "" THEN FetchResult("", <<rr>>, ErrNoToken)
    ELSE FetchResult(rr.value, <<rr>>, NoErr)

\* ------------------------------------------------------------- SendMsg
ChannelLog(desc, rr, err) == [desc |-> desc, rr |-> rr, err |-> err]

AddLog(st, log) == [st EXCEPT !.logs = Append(st.logs, log)]

\* StashTokenLog logging the exchange only when it failed.
StashTokenLog_OnlyOnError(st, ft) ==
    IF ft.rr # <<>> /\ ft.err # NoErr
    THEN AddLog(st, ChannelLog("Token Retrieved", ft.rr[1], ft.err))
    ELSE st

\* "if we made a request for our token, stash that in our status"
StashTokenLog(st, ft) ==
    IF ft.rr # <<>>
    THEN AddLog(st, ChannelLog("Token Retrieved", ft.rr[1], ft.err))
    ELSE st

\* AfterFetch with the (nil, err) return left out: every failure returns the status.
AfterFetch_AlwaysStatus(ft) == IF ft.err # NoErr THEN "failed" ELSE "send"

\* AfterFetch with the test on rr left out: every failure returns (nil, err).
AfterFetch_AlwaysError(ft) == IF ft.err # NoErr THEN "error" ELSE "send"

\* Which way SendMsg goes once FetchToken is back: return (nil, err), return
\* (status, nil), or go on to send the parts.
AfterFetch(ft) ==
    IF ft.rr = <<>> /\ ft.err # NoErr THEN "error"
    ELSE IF ft.err # NoErr THEN "failed"
    ELSE "send"

\* What SendMsg returns: (status, err), status <<>> when nil.
Returned(st, err) == <<[status |-> st, err |-> err]>>

\* ExternalIDAfter with the test for the first part left out.
ExternalIDAfter_AnyPart(cur, i, id) == IF id # "" THEN id ELSE cur

\* "try to get the message id out": the external id after part i (0-based)
\* came back with Data.MessageID id.
ExternalIDAfter(cur, i, id) == IF id # "" /\ i = 0 THEN id ELSE cur

\* StatusAfterSend putting the state back to errored on a failed exchange.
StatusAfterSend_ResetOnError(st, i, rr) ==
    LET logged == AddLog(st, ChannelLog("Message Sent", rr,
                                        IF rr.ok THEN NoErr ELSE ErrHTTP))
    IN  IF ~rr.ok THEN [logged EXCEPT !.state = MsgErrored]
        ELSE [logged EXCEPT
                !.state = MsgWired,
                !.externalID = IF rr.value # "" /\ i = 0 THEN rr.value ELSE @]

\* The status after the exchange rr of part i: the log, then on success the
\* state and the external id.
StatusAfterSend(st, i, rr) ==
    LET logged == AddLog(st, ChannelLog("Message Sent", rr,
                                        IF rr.ok THEN NoErr ELSE ErrHTTP))
    IN  IF ~rr.ok THEN logged
        ELSE [logged EXCEPT
                !.state = MsgWired,
                !.externalID = ExternalIDAfter(@, i, rr.value)]

\* LoopEnds with the return on a failed exchange left out.
LoopEnds_NoReturnOnError(ok, i, n) == i + 1 >= n

\* Whether SendMsg returns after part i of n: on a failed exchange, and when
\* the loop has run through the parts.
LoopEnds(ok, i, n) == ~ok \/ i + 1 >= n

\* BeforeRequest with the cached token never used.
BeforeRequest_IgnoreCache(cached, conf) ==
    IF ConfigError(conf) # NoErr
    THEN <<FetchResult("", <<>>, ConfigError(conf))>>
    ELSE <<>>

\* FetchToken up to its token request: <<what it returns>> when it returns
\* before making one (a cached token, or a missing credential), <<>> when it
\* goes on to the request.
BeforeRequest(cached, conf) ==
    IF cached # "" THEN <<FetchResult(cached, <<>>, NoErr)>>
    ELSE IF ConfigError(conf) # NoErr
         THEN <<FetchResult("", <<>>, ConfigError(conf))>>
         ELSE <<>>

\* The texts of the messages: a text is its length, its characters being
\* told apart by their positions 1..length.  One character, and the lengths
\* at and just past each multiple of the limit, up to MaxParts parts.
TextLengths ==
    {1} \cup {k * maxMsgLength : k \in 1..(MaxParts - 1)}
        \cup {k * maxMsgLength + 1 : k \in 1..(MaxParts - 1)}

\* The parts of the characters from..len of a text, each the positions
\* [from, to] it spans, at most max characters a part.
RECURSIVE SplitFrom(_, _, _)
SplitFrom(from, len, max) ==
    IF len - from + 1 <= max
    THEN <<[from |-> from, to |-> len]>>
    ELSE <<[from |-> from, to |-> from + max - 1]>> \o SplitFrom(from + max, len, max)

\* handlers.SplitMsgByChannel on a text of len characters.
SplitMsgByChannel(len, max) == SplitFrom(1, len, max)

\* AfterGet with a failed GET made fatal.
AfterGet_FailOnError(early, up) ==
    IF up THEN early ELSE <<FetchResult("", <<>>, "redis: GET failed")>>

\* The err of the GET is never looked at: whether Redis answered (up) or not,
\* FetchToken goes by the token alone.
AfterGet(early, up) == early

\* AfterCacheWrite with a failed SETEX returned as FetchToken's error.
AfterCacheWrite_FailOnError(tok, rr, up) ==
    IF up THEN FetchResult(tok, rr, NoErr)
    ELSE FetchResult("", rr, "error caching HM access token")

\* What FetchToken returns after the SETEX: its err is logged, not returned.
AfterCacheWrite(tok, rr, up) == FetchResult(tok, rr, NoErr)

\* The bearer token of a part's request, read from the cache at each request.
AuthToken_FromCache(m) == cache[CacheKey(chan[m])].tok

\* The bearer token of a part's request: SendMsg's local token.
AuthToken(m) == token[m]

\* SendMsg from FetchToken's return ft to the split of the message text, of
\* text characters, into its parts.
Resume(m, ft, text) ==
    LET st == StashTokenLog(status[m], ft)
        way == AfterFetch(ft)
        split == SplitMsgByChannel(text, maxMsgLength)
    IN  /\ token' = [token EXCEPT ![m] = ft.token]
        /\ tokenRR' = [tokenRR EXCEPT ![m] = ft.rr]
        /\ CASE way = "error" ->
                  /\ result' = [result EXCEPT ![m] = Returned(<<>>, ErrWrap \o ft.err)]
                  /\ pc' = [pc EXCEPT ![m] = "done"]
                  /\ UNCHANGED <<status, nparts, parts, idx>>
             [] way = "failed" ->
                  /\ status' = [status EXCEPT ![m] = st]
                  /\ result' = [result EXCEPT ![m] = Returned(<<st>>, NoErr)]
                  /\ pc' = [pc EXCEPT ![m] = "done"]
                  /\ UNCHANGED <<nparts, parts, idx>>
             [] OTHER ->
                  /\ status' = [status EXCEPT ![m] = st]
                  /\ parts' = [parts EXCEPT ![m] = split]
                  /\ nparts' = [nparts EXCEPT ![m] = Len(split)]
                  /\ idx' = [idx EXCEPT ![m] = 0]
                  /\ pc' = [pc EXCEPT ![m] = "send"]
                  /\ UNCHANGED result

\* SendMsg is called for message m, of channel c with config conf and a text
\* of text characters, and Redis answers the GET or not (up): the status is
\* created, FetchToken looks the token up in Redis and returns it, fails on
\* the credentials, or goes on to request one.
LookupWith(m, c, conf, up, text) ==
    LET cached == RedisGet(cache[CacheKey(c)], up)
        early == AfterGet(BeforeRequest(cached, conf), up)
    IN  /\ pc[m] = "idle"
        /\ chan' = [chan EXCEPT ![m] = c]
        /\ cfg' = [cfg EXCEPT ![m] = conf]
        /\ redis' = [redis EXCEPT ![m] = <<GetCmd(CacheKey(c), up, cached)>>]
        /\ IF early # <<>>
           THEN Resume(m, early[1], text)
           ELSE /\ pc' = [pc EXCEPT ![m] = "request"]
                /\ UNCHANGED <<nparts, parts, idx, token, tokenRR, status, result>>
        /\ UNCHANGED <<cache, wire, written, latest>>

Lookup(m) ==
    \E c \in Channels, conf \in Configs, up \in BOOLEAN, text \in TextLengths :
        LookupWith(m, c, conf, up, text)

\* The token request comes back with rr: FetchToken returns the failure, or
\* goes on to cache the token.
TokenRequestWith(m, rr, text) ==
    LET ft == TokenFromResponse(rr)
    IN  /\ pc[m] = "request"
        /\ wire' = [wire EXCEPT ![m] = Append(@, rr)]
        /\ IF ft.err # NoErr
           THEN Resume(m, ft, text)
           ELSE /\ token' = [token EXCEPT ![m] = ft.token]
                /\ tokenRR' = [tokenRR EXCEPT ![m] = ft.rr]
                /\ pc' = [pc EXCEPT ![m] = "cache"]
                /\ UNCHANGED <<nparts, parts, idx, status, result>>
        /\ UNCHANGED <<chan, cfg, cache, redis, written, latest>>

TokenRequest(m) ==
    \E rr \in TokenResponses, text \in TextLengths : TokenRequestWith(m, rr, text)

\* The token is written to Redis, which takes the SETEX or not (up), and
\* FetchToken returns it with the exchange.
CacheWriteWith(m, up, text) ==
    /\ pc[m] = "cache"
    /\ cache' = RedisSetex(cache, CacheKey(chan[m]), TokenTTL, token[m], up)
    /\ redis' = [redis EXCEPT
                   ![m] = Append(@, SetexCmd(CacheKey(chan[m]), TokenTTL, token[m], up))]
    /\ written' = IF up THEN [written EXCEPT ![CacheKey(chan[m])][token[m]] = 0]
                   ELSE written
    /\ latest' = IF up THEN [latest EXCEPT ![CacheKey(chan[m])] = token[m]]
                  ELSE latest
    /\ Resume(m, AfterCacheWrite(token[m], tokenRR[m], up), text)
    /\ UNCHANGED <<chan, cfg, wire>>

CacheWrite(m) ==
    \E up \in BOOLEAN, text \in TextLengths : CacheWriteWith(m, up, text)

\* The gateway calls SendMsg for m while no other call is in progress.
Begin(m) ==
    /\ \A o \in Msgs \ {m} : pc[o] = "idle"
    /\ Lookup(m)

\* One turn of the loop over the parts: the request for part idx[m] is made,
\* comes back with rr and is logged; SendMsg returns on a failure and after
\* the last part.
SendPartWith(m, rr) ==
    LET st == StatusAfterSend(status[m], idx[m], rr)
        last == LoopEnds(rr.ok, idx[m], nparts[m])
    IN  /\ pc[m] = "send"
        /\ wire' = [wire EXCEPT ![m] = Append(@, rr)]
        /\ status' = [status EXCEPT ![m] = st]
        /\ idx' = [idx EXCEPT ![m] = IF last THEN @ ELSE @ + 1]
        /\ result' = [result EXCEPT ![m] = IF last THEN Returned(<<st>>, NoErr) ELSE @]
        /\ pc' = [pc EXCEPT ![m] = IF last THEN "done" ELSE "send"]
        /\ UNCHANGED <<chan, cfg, nparts, parts, token, tokenRR, cache, redis,
                       written, latest>>

SendPart(m) ==
    /\ pc[m] = "send"
    /\ \E rr \in SendResponses(idx[m], AuthToken(m)) : SendPartWith(m, rr)

\* The gateway hands the handler its next message: a fresh invocation.
NextMsg(m) ==
    /\ pc[m] = "done"
    /\ pc' = [pc EXCEPT ![m] = "idle"]
    /\ chan' = [chan EXCEPT ![m] = "c1"]
    /\ cfg' = [cfg EXCEPT ![m] = [username |-> "", password |-> ""]]
    /\ nparts' = [nparts EXCEPT ![m] = 0]
    /\ parts' = [parts EXCEPT ![m] = <<>>]
    /\ idx' = [idx EXCEPT ![m] = 0]
    /\ token' = [token EXCEPT ![m] = ""]
    /\ tokenRR' = [tokenRR EXCEPT ![m] = <<>>]
    /\ status' = [status EXCEPT ![m] = NewMsgStatus]
    /\ result' = [result EXCEPT ![m] = <<>>]
    /\ wire' = [wire EXCEPT ![m] = <<>>]
    /\ redis' = [redis EXCEPT ![m] = <<>>]
    /\ UNCHANGED <<cache, written, latest>>

\* Time passes: every entry's time to live runs down.
Tick ==
    /\ \E k \in Keys : cache[k].ttl > 0
    /\ cache' = [k \in Keys |-> Expire(cache[k], TickStep)]
    /\ written' = [k \in Keys |-> [t \in Tokens |-> Elapsed(written[k][t], TickStep)]]
    /\ UNCHANGED <<pc, chan, cfg, nparts, parts, idx, token, tokenRR, status, result,
                   wire, redis, latest>>

Next ==
    \/ \E m \in Msgs : Begin(m)
    \/ \E m \in Msgs : TokenRequest(m)
    \/ \E m \in Msgs : CacheWrite(m)
    \/ \E m \in Msgs : SendPart(m)
    \/ \E m \in Msgs : NextMsg(m)
    \/ Tick

Spec == Init /\ [][Next]_vars

\* --------------------------------------- the invocations of one channel
\* The gateway calls SendMsg for a message of channel c1 while no other call
\* is in progress.
BeginOnChannel(m) ==
    /\ \A o \in Msgs \ {m} : pc[o] = "idle"
    /\ \E conf \in Configs, up \in BOOLEAN, text \in TextLengths :
          LookupWith(m, "c1", conf, up, text)

ChannelNext ==
    \/ \E m \in Msgs : BeginOnChannel(m)
    \/ \E m \in Msgs : TokenRequest(m)
    \/ \E m \in Msgs : CacheWrite(m)
    \/ \E m \in Msgs : SendPart(m)
    \/ \E m \in Msgs : NextMsg(m)
    \/ Tick

\* Every HTTP call and every Redis call an invocation makes returns: the
\* step that follows the call is taken in the end.
Fairness ==
    \A m \in Msgs :
        /\ WF_vars(TokenRequest(m))
        /\ WF_vars(CacheWrite(m))
        /\ WF_vars(SendPart(m))

FairSpec == Init /\ [][ChannelNext]_vars /\ Fairness

\* ------------------------------------------------ concurrent invocations
\* Two invocations, one for each message, interleaved at their HTTP and
\* Redis calls in every way; the channels are configured, Redis answers, and
\* the endpoints answer or not.
FullConfig == [username |-> "u", password |-> "p"]

ConcLookup(m) ==
    \E c \in Channels, text \in TextLengths : LookupWith(m, c, FullConfig, TRUE, text)

ConcTokenRequest(m) ==
    \E rr \in {TokenRR(FALSE, FALSE, "")} \cup {TokenRR(TRUE, TRUE, t) : t \in Tokens},
       text \in TextLengths :
        TokenRequestWith(m, rr, text)

ConcCacheWrite(m) == \E text \in TextLengths : CacheWriteWith(m, TRUE, text)

ConcSendPart(m) ==
    /\ pc[m] = "send"
    /\ \E rr \in {SendRR(idx[m], AuthToken(m), FALSE, ""),
                  SendRR(idx[m], AuthToken(m), TRUE, "x1")} :
          SendPartWith(m, rr)

ConcNext ==
    \/ \E m \in Msgs : ConcLookup(m)
    \/ \E m \in Msgs : ConcTokenRequest(m)
    \/ \E m \in Msgs : ConcCacheWrite(m)
    \/ \E m \in Msgs : ConcSendPart(m)
    \/ Tick

SpecConc == Init /\ [][ConcNext]_vars

\* ------------------------------------------------------------- properties
Returns(m) == result[m] # <<>>
ReturnsStatus(m) == Returns(m) /\ result[m][1].status # <<>>
ReturnedStatus(m) == result[m][1].status[1]
ReturnedErr(m) == result[m][1].err

TokenCalls(m) == SelectSeq(wire[m], LAMBDA r : r.url = "token")
Sends(m) == SelectSeq(wire[m], LAMBDA r : r.url = "send")

\* The invocation's GET found nothing (a miss, or Redis not reached).
LookupMissed(m) == redis[m] # <<>> /\ redis[m][1].value = ""
\* The invocation's GET was answered with a stored token.
LookupHit(m) == redis[m] # <<>> /\ redis[m][1].value # ""

\* An exchange that failed for SendMsg: no answer, or for the token endpoint
\* an answer without a usable access_token.
ExchangeFailed(rr) ==
    \/ ~rr.ok
    \/ rr.url = "token" /\ (~rr.field \/ rr.value = "")

SecondPartFailed(m) ==
    /\ pc[m] = "done"
    /\ nparts[m] = 2
    /\ Len(Sends(m)) = 2
    /\ Sends(m)[1].ok
    /\ ~Sends(m)[2].ok

\* C2 as stated: when part 1 of a two-part message is sent and part 2 fails
\* at the transport, the returned status is in state errored, not wired.
C2_Original ==
    \A m \in Msgs :
        SecondPartFailed(m) =>
            ReturnsStatus(m) /\ ReturnedStatus(m).state = MsgErrored

\* C2 as amended: when part 1 of a two-part message is sent and part 2 fails
\* at the transport, the returned status stays in state wired; part 2's failure
\* shows only as the error of the second of its two send entries.
C2_StaysWired ==
    \A m \in Msgs :
        SecondPartFailed(m) =>
            /\ ReturnsStatus(m)
            /\ ReturnedErr(m) = NoErr
            /\ ReturnedStatus(m).state = MsgWired
            /\ Len(ReturnedStatus(m).logs) = Len(TokenCalls(m)) + 2
            /\ ReturnedStatus(m).logs[Len(ReturnedStatus(m).logs)].err # NoErr
            /\ ReturnedStatus(m).logs[Len(ReturnedStatus(m).logs) - 1].err = NoErr

C2_Witness == \E m \in Msgs : SecondPartFailed(m) /\ ReturnsStatus(m)

\* C3: whenever an exchange with the provider fails (the token exchange at
\* the transport or for want of an access_token, or the send of a part at
\* the transport), SendMsg returns a status and a nil error.
C3_ProviderFailureInStatus ==
    \A m \in Msgs :
        (\E k \in 1..Len(wire[m]) : ExchangeFailed(wire[m][k])) =>
            /\ pc[m] = "done"
            /\ ReturnsStatus(m)
            /\ ReturnedErr(m) = NoErr

C3_Witness ==
    \E m \in Msgs : ReturnsStatus(m) /\ wire[m] = <<TokenRR(FALSE, FALSE, "")>>

\* The HTTP exchanges of an invocation in the order the code can make them:
\* at most one token exchange, first, then the parts 0, 1, ... in order.
WireInOrder(w) ==
    LET off == IF w # <<>> /\ w[1].url = "token" THEN 1 ELSE 0
    IN  \A k \in 1..Len(w) :
            IF k <= off THEN w[k].url = "token"
            ELSE w[k].url = "send" /\ w[k].part = k - off - 1

\* C4: a returned status holds exactly one diagnostic entry per HTTP exchange
\* of the invocation, in the order of the exchanges: the token exchange first
\* if one was made, failed or not, then one per part sent, the failed one too.
C4_OneLogPerExchange ==
    \A m \in Msgs :
        ReturnsStatus(m) =>
            LET logs == ReturnedStatus(m).logs
                w == wire[m]
            IN  /\ Len(logs) = Len(w)
                /\ WireInOrder(w)
                /\ \A k \in 1..Len(w) :
                      /\ logs[k].rr = w[k]
                      /\ logs[k].desc = IF w[k].url = "token" THEN "Token Retrieved"
                                                               ELSE "Message Sent"
                      /\ (logs[k].err # NoErr) = ExchangeFailed(w[k])

C4_Witness ==
    \E m \in Msgs : /\ ReturnsStatus(m)
                     /\ Len(TokenCalls(m)) = 1
                     /\ Len(Sends(m)) = 2
                     /\ ~Sends(m)[2].ok
                     /\ Len(ReturnedStatus(m).logs) = 3

\* The token endpoint answered with an empty access_token.
EmptyTokenReturned(m) ==
    wire[m] # <<>> /\ wire[m][1] = TokenRR(TRUE, TRUE, "")

\* C5: when the lookup misses and the token endpoint answers successfully
\* with an empty access_token, SendMsg returns a status in state errored with
\* exactly one diagnostic entry, the token exchange; no send is made or logged.
C5_EmptyAccessToken ==
    \A m \in Msgs :
        EmptyTokenReturned(m) =>
            /\ pc[m] = "done"
            /\ LookupMissed(m)
            /\ ReturnsStatus(m)
            /\ ReturnedErr(m) = NoErr
            /\ ReturnedStatus(m).state = MsgErrored
            /\ Len(ReturnedStatus(m).logs) = 1
            /\ ReturnedStatus(m).logs[1].rr.url = "token"
            /\ ReturnedStatus(m).logs[1].err # NoErr
            /\ Sends(m) = <<>>

C5_Witness == \E m \in Msgs : EmptyTokenReturned(m) /\ ReturnsStatus(m)

\* C6: the parts are sent one at a time in order, each at most once and a
\* part only after the one before it was sent; a part that fails at the
\* transport is the last exchange of the invocation, which has then returned,
\* and the parts sent before it stay sent (the state stays wired).
C6_StopAtFailedPart ==
    \A m \in Msgs :
        LET sent == Sends(m)
        IN  /\ Len(sent) <= nparts[m]
            /\ \A k \in 1..Len(sent) :
                  /\ sent[k].part = k - 1
                  /\ k < Len(sent) => sent[k].ok
                  /\ ~sent[k].ok =>
                        /\ pc[m] = "done"
                        /\ ReturnsStatus(m)
                        /\ ReturnedStatus(m).state
                              = IF k > 1 THEN MsgWired ELSE MsgErrored

C6_Witness ==
    \E m \in Msgs :
        /\ nparts[m] = MaxParts
        /\ Len(Sends(m)) = MaxParts - 1
        /\ ~Sends(m)[MaxParts - 1].ok
        /\ pc[m] = "done"

\* C7: the external id of the status is the provider message id of the first
\* part's response, unset when that response carried none or when the first
\* part was not sent; the responses of later parts never set or change it and
\* a later part's failure does not erase it.
C7_ExternalIDFromFirstPart ==
    \A m \in Msgs :
        /\ status[m].externalID
              = IF Sends(m) # <<>> /\ Sends(m)[1].ok THEN Sends(m)[1].value ELSE ""
        /\ ReturnsStatus(m) => ReturnedStatus(m).externalID = status[m].externalID

C7_Witness ==
    \E m \in Msgs : /\ ReturnsStatus(m)
                     /\ Len(Sends(m)) = 2
                     /\ Sends(m)[1].ok /\ Sends(m)[1].value = ""
                     /\ Sends(m)[2].ok /\ Sends(m)[2].value # ""
                     /\ ReturnedStatus(m).externalID = ""

\* m's SendMsg is called in this step, and so its token is looked up.
LookupStep(m) == pc[m] = "idle" /\ pc'[m] # "idle"

\* The lookup of this step took the live-fetch path: no token was returned
\* from the cache, and FetchToken went on to the credentials and the request.
TookFetchPath(m) ==
    /\ redis'[m][1].value = ""
    /\ \/ pc'[m] = "request"
       \/ pc'[m] = "done" /\ result'[m][1].status = <<>>

\* With a token stored for the channel and the lookup answered, FetchToken
\* returns the stored token with no diagnostic record and makes no token
\* request, and the cache is as it was.
C8_HitStep(m) ==
    LET key == "hm_token_" \o chan'[m]
        get == redis'[m][1]
    IN  LookupStep(m) /\ get.up /\ cache[key].tok # "" /\ cache[key].ttl > 0 =>
            /\ get = [cmd |-> "GET", key |-> key, ttl |-> 0,
                       value |-> cache[key].tok, up |-> TRUE]
            /\ Len(redis'[m]) = 1
            /\ token'[m] = cache[key].tok
            /\ tokenRR'[m] = <<>>
            /\ wire'[m] = <<>>
            /\ pc'[m] = "send"
            /\ cache' = cache

\* An invocation that found its token in the cache never makes a token
\* request or a cache write.
C8_HitInv ==
    \A m \in Msgs :
        LookupHit(m) =>
            /\ TokenCalls(m) = <<>>
            /\ Len(redis[m]) = 1
            /\ token[m] = redis[m][1].value
            /\ pc[m] \in {"send", "done"}

\* C8: with a non-empty token stored for the channel, every fetch, however
\* many follow each other, makes no token request, returns the stored token
\* and no diagnostic record, and leaves the cache unchanged.
C8_WarmCacheFetch == []C8_HitInv /\ [][\A m \in Msgs : C8_HitStep(m)]_vars

C8_Witness ==
    \E m \in Msgs : LookupHit(m) /\ pc[m] = "done" /\ ReturnsStatus(m)
                     /\ cache[redis[m][1].key].tok = token[m]

\* m's FetchToken writes its token to the cache and returns in this step.
WriteStep(m) == pc[m] = "cache" /\ pc'[m] # "cache"

C9_WriteStep(m) ==
    LET key == "hm_token_" \o chan[m]
        fetched == wire[m][1].value
        cmd == redis'[m][Len(redis'[m])]
    IN  WriteStep(m) =>
            /\ fetched # ""
            /\ Len(redis'[m]) = 2
            /\ cmd = [cmd |-> "SETEX", key |-> key, ttl |-> 5340,
                       value |-> fetched, up |-> cmd.up]
            /\ token'[m] = fetched
            /\ pc'[m] = "send"
            /\ cmd.up =>
                  /\ cache'[key] = [tok |-> fetched, ttl |-> 5340]
                  /\ RedisGet(cache'[key], TRUE) = fetched
                  /\ \A k \in Keys \ {key} : cache'[k] = cache[k]

C10_OriginalStep(m) ==
    LET key == "hm_token_" \o chan'[m]
        get == redis'[m][1]
    IN  LookupStep(m) /\ get.up =>
            /\ \A t \in Tokens :
                  written[key][t] < 5340 =>
                      get.value = t /\ wire'[m] = <<>> /\ pc'[m] = "send"
            /\ (\A t \in Tokens : written[key][t] >= 5340) => TookFetchPath(m)

C10_Original == [][\A m \in Msgs : C10_OriginalStep(m)]_vars

C10_LatestStep(m) ==
    LET key == "hm_token_" \o chan'[m]
        get == redis'[m][1]
        t == latest[key]
    IN  LookupStep(m) /\ get.up =>
            IF t # "" /\ written[key][t] < 5340
            THEN get.value = t /\ wire'[m] = <<>> /\ pc'[m] = "send"
            ELSE TookFetchPath(m)

\* C10 as amended: the token written last for a channel, with TTL 5340, is
\* returned by every answered get for the channel made before 5340 seconds
\* have passed since that write, the send making no token request, whatever
\* tokens were written before it; after that the get finds nothing and the
\* send takes the live-fetch path.
C10_LatestWriteServed == [][\A m \in Msgs : C10_LatestStep(m)]_vars

C10_Witness ==
    \E m \in Msgs, k \in Keys, t \in Tokens :
        /\ LookupHit(m)
        /\ redis[m][1].key = k
        /\ latest[k] # t
        /\ written[k][t] < 5340
        /\ written[k][latest[k]] > 0
        /\ token[m] = latest[k]

\* The invocation's SETEX was not taken by Redis.
WriteFailed(m) == Len(redis[m]) = 2 /\ ~redis[m][2].up

\* C11: when the SETEX after a successful token fetch fails, FetchToken still
\* returns the fetched token with the exchange and no error: SendMsg logs the
\* token exchange without error, goes on to send the parts with that token,
\* and returns a status and a nil error.
C11_CacheWriteFailureIgnored ==
    \A m \in Msgs :
        WriteFailed(m) =>
            /\ pc[m] \in {"send", "done"}
            /\ token[m] = wire[m][1].value
            /\ token[m] # ""
            /\ tokenRR[m] = <<wire[m][1]>>
            /\ status[m].logs[1]
                 = [desc |-> "Token Retrieved", rr |-> wire[m][1], err |-> NoErr]
            /\ nparts[m] >= 1
            /\ \A k \in 1..Len(Sends(m)) : Sends(m)[k].auth = wire[m][1].value
            /\ pc[m] = "done" =>
                  /\ ReturnsStatus(m)
                  /\ ReturnedErr(m) = NoErr
                  /\ Len(Sends(m)) >= 1

C11_Witness ==
    \E m \in Msgs :
        /\ WriteFailed(m)
        /\ pc[m] = "done"
        /\ Len(Sends(m)) = 2
        /\ Sends(m)[2].ok
        /\ ReturnedStatus(m).state = MsgWired
        /\ cache[redis[m][2].key].tok # token[m]

\* The invocation's GET was not answered by Redis.
LookupFailed(m) == redis[m] # <<>> /\ ~redis[m][1].up

\* C12: a GET that Redis does not answer counts as a miss: FetchToken goes
\* on to the credentials and the token request, and the only error SendMsg
\* can return after it is that of a missing credential.
C12_LookupFailureIsMiss ==
    \A m \in Msgs :
        LookupFailed(m) =>
            /\ redis[m][1].value = ""
            /\ pc[m] \in {"request", "cache", "send", "done"}
            /\ IF cfg[m].username = "" \/ cfg[m].password = ""
               THEN /\ pc[m] = "done"
                    /\ wire[m] = <<>>
                    /\ result[m][1].status = <<>>
                    /\ ReturnedErr(m) \in {ErrWrap \o ErrUsername, ErrWrap \o ErrPassword}
               ELSE /\ pc[m] = "request" \/ Len(TokenCalls(m)) = 1
                    /\ Returns(m) => ReturnsStatus(m) /\ ReturnedErr(m) = NoErr

C12_Witness ==
    \E m \in Msgs :
        /\ LookupFailed(m)
        /\ cache[redis[m][1].key].ttl > 0
        /\ Len(TokenCalls(m)) = 1
        /\ pc[m] = "done"
        /\ ReturnsStatus(m)
        /\ ReturnedStatus(m).state = MsgWired

\* C16: the state of the status is errored until a part has been sent and
\* wired from then on: at every moment, and in every status returned, it is
\* wired if and only if the send of some part succeeded; the failure of a
\* later part leaves it wired.
C16_WiredIffPartSent ==
    \A m \in Msgs :
        LET sentOne == \E k \in 1..Len(Sends(m)) : Sends(m)[k].ok
        IN  /\ status[m].state = IF sentOne THEN MsgWired ELSE MsgErrored
            /\ ReturnsStatus(m) => ReturnedStatus(m).state = status[m].state

C16_Witness ==
    \E m \in Msgs :
        /\ ReturnsStatus(m)
        /\ Len(TokenCalls(m)) = 1
        /\ Len(Sends(m)) = 2
        /\ Sends(m)[1].ok
        /\ ~Sends(m)[2].ok
        /\ ReturnedStatus(m).state = MsgWired

\* C17: on a miss with an empty username or password FetchToken makes no
\* token request: it fails with the error of the missing field, that of the
\* username when both are missing, returns no diagnostic record, and issues
\* no write to the cache.
C17_MissingCredential ==
    \A m \in Msgs :
        LookupMissed(m) /\ (cfg[m].username = "" \/ cfg[m].password = "") =>
            /\ pc[m] = "done"
            /\ wire[m] = <<>>
            /\ tokenRR[m] = <<>>
            /\ token[m] = ""
            /\ Len(redis[m]) = 1
            /\ result[m] = <<[status |-> <<>>,
                              err |-> ErrWrap \o (IF cfg[m].username = ""
                                                  THEN "Missing 'username' config for HM channel"
                                                  ELSE "Missing 'password' config for HM channel")]>>

C17_Witness ==
    \E m \in Msgs :
        /\ LookupMissed(m)
        /\ cfg[m] = [username |-> "", password |-> ""]
        /\ pc[m] = "done"
        /\ \E k \in Keys : cache[k].ttl > 0

\* The token exchange of the invocation failed.
TokenFetchFailed(m) == TokenCalls(m) # <<>> /\ ExchangeFailed(wire[m][1])

\* An invocation whose token exchange failed writes nothing to the cache,
\* and every live entry of the cache holds a non-empty token.
C19_Inv ==
    /\ \A m \in Msgs : TokenFetchFailed(m) => pc[m] = "done" /\ Len(redis[m]) = 1
    /\ \A k \in Keys : cache[k].ttl > 0 => cache[k].tok \in Tokens

\* A step that puts a token under a key is the cache write of an invocation
\* for that key's channel, and the token is the one the token endpoint
\* returned to that invocation.
C19_WriteStep(k) ==
    cache'[k] # NoEntry /\ (cache'[k].tok # cache[k].tok \/ cache'[k].ttl > cache[k].ttl) =>
        \E m \in Msgs :
            /\ pc[m] = "cache"
            /\ pc'[m] # "cache"
            /\ k = "hm_token_" \o chan[m]
            /\ wire[m] = <<TokenRR(TRUE, TRUE, cache'[k].tok)>>
            /\ cache'[k].tok # ""

\* A step in which a token exchange fails leaves the cache as it is.
C19_FailStep(m) ==
    pc[m] = "request" /\ pc'[m] = "done" => cache' = cache /\ redis'[m] = redis[m]

\* C19: a failed token fetch (no answer, no access_token, an empty one) never
\* changes the cache, and the cache only ever holds non-empty tokens that the
\* token endpoint returned for that channel.
C19_OnlyFetchedTokensCached ==
    /\ []C19_Inv
    /\ [][(\A k \in Keys : C19_WriteStep(k)) /\ (\A m \in Msgs : C19_FailStep(m))]_vars

C19_Witness ==
    \E m \in Msgs :
        /\ TokenFetchFailed(m)
        /\ wire[m][1] = TokenRR(TRUE, FALSE, "")
        /\ cache["hm_token_" \o chan[m]].ttl > 0

\* The parts cover the characters 1..len of a text in order: the first
\* starts at the first character, each next one right after the one before.
InTextOrder(ps) ==
    /\ ps[1].from = 1
    /\ \A i \in 1..(Len(ps) - 1) : ps[i + 1].from = ps[i].to + 1
    /\ ps[Len(ps)].to \in TextLengths

TokenErrorOutcome(m) == Sends(m) = <<>>
SegmentErrorOutcome(m) == Sends(m) # <<>> /\ ~Sends(m)[Len(Sends(m))].ok
DoneOutcome(m) ==
    /\ Len(Sends(m)) = nparts[m]
    /\ nparts[m] >= 1
    /\ \A k \in 1..Len(Sends(m)) : Sends(m)[k].ok

Outcomes(m) ==
    {o \in {"token error", "segment error", "done"} :
        \/ o = "token error" /\ TokenErrorOutcome(m)
        \/ o = "segment error" /\ SegmentErrorOutcome(m)
        \/ o = "done" /\ DoneOutcome(m)}

\* An invocation has returned exactly when it stands at its end, and then in
\* exactly one terminal outcome; it makes at most one token request and at
\* most one send request a part.
C18_Inv ==
    \A m \in Msgs :
        /\ Returns(m) <=> pc[m] = "done"
        /\ pc[m] = "done" => Cardinality(Outcomes(m)) = 1
        /\ pc[m] = "send" => Outcomes(m) \subseteq {"token error"} /\ idx[m] = Len(Sends(m))
        /\ Len(TokenCalls(m)) <= 1
        /\ \A j, k \in 1..Len(Sends(m)) : Sends(m)[j].part = Sends(m)[k].part => j = k
        /\ Len(Sends(m)) <= nparts[m]

\* Once it has returned the invocation makes no further call.
C18_ReturnedStep(m) ==
    pc[m] = "done" /\ pc'[m] = "done" =>
        /\ wire'[m] = wire[m]
        /\ redis'[m] = redis[m]
        /\ result'[m] = result[m]
        /\ status'[m] = status[m]

\* C18: an invocation whose HTTP and Redis calls all return ends in exactly
\* one terminal outcome (token error, segment error, done after the last
\* part) and returns then, having made at most one token request and at most
\* one send request for each part.
C18_Terminates ==
    /\ []C18_Inv
    /\ [][\A m \in Msgs : C18_ReturnedStep(m)]_vars
    /\ \A m \in Msgs : (pc[m] # "idle") ~> (pc[m] = "done")

C18_Witness ==
    \E m \in Msgs :
        /\ pc[m] = "done"
        /\ Outcomes(m) = {"segment error"}
        /\ Len(TokenCalls(m)) = 1
        /\ Len(Sends(m)) = 2

\* The invocation fetched its token from the token endpoint.
Fetched(m) == TokenCalls(m) # <<>> /\ ~ExchangeFailed(wire[m][1])

\* The token the invocation obtained itself: the reply of its GET on a hit,
\* the access_token of its own token exchange after a miss.
OwnToken(m) == IF LookupHit(m) THEN redis[m][1].value ELSE wire[m][1].value

\* No invocation waits on another: wherever it stands, its next step can be
\* taken, whatever the other invocations are doing.
NoneWaits ==
    \A m \in Msgs :
        /\ pc[m] = "idle" => ENABLED ConcLookup(m)
        /\ pc[m] = "request" => ENABLED ConcTokenRequest(m)
        /\ pc[m] = "cache" => ENABLED ConcCacheWrite(m)
        /\ pc[m] = "send" => ENABLED ConcSendPart(m)

\* C13: invocations of one channel that run concurrently on a cold cache may
\* all miss and all fetch; each makes at most one token request, none waits
\* on another, each sends its parts with the token it fetched itself, and
\* when all have returned the entry, if still alive, holds the token written
\* last.
C13_RaceOnTokenFetch ==
    /\ NoneWaits
    /\ \A m \in Msgs :
          /\ Len(TokenCalls(m)) <= 1
          /\ LookupMissed(m) /\ pc[m] # "request" => Len(TokenCalls(m)) = 1
          /\ Fetched(m) =>
                \A k \in 1..Len(Sends(m)) : Sends(m)[k].auth = wire[m][1].value
          /\ Fetched(m) /\ pc[m] \in {"send", "done"} =>
                /\ Len(redis[m]) = 2
                /\ redis[m][2] = SetexCmd("hm_token_" \o chan[m], 5340, wire[m][1].value, TRUE)
    /\ (\A m \in Msgs : pc[m] = "done") =>
          \A k \in Keys :
              cache[k].ttl > 0 => cache[k].tok = latest[k] /\ written[k][latest[k]] < 5340

C13_Witness ==
    /\ \A m \in Msgs : pc[m] = "done" /\ chan[m] = "c1" /\ LookupMissed(m) /\ Fetched(m)
    /\ wire["m1"][1].value = "t1"
    /\ wire["m2"][1].value = "t2"
    /\ Sends("m1")[1].auth = "t1"
    /\ Sends("m2")[1].auth = "t2"
    /\ cache["hm_token_c1"] = [tok |-> "t1", ttl |-> 5340]
    /\ redis["m1"][2].value = "t1"

\* A step of the invocation for message m.
StepOf(m) == pc'[m] # pc[m] \/ wire'[m] # wire[m] \/ redis'[m] # redis[m]

\* What a step of m's invocation, of channel A, touches: of the cache the
\* entry of A alone, read by its GET and written by its SETEX, and nothing
\* of any other invocation.
C14_Frame(m) ==
    StepOf(m) =>
        LET own == "hm_token_" \o chan'[m]
        IN  /\ \A k \in Keys \ {own} : cache'[k] = cache[k]
            /\ \A i \in 1..Len(redis'[m]) : redis'[m][i].key = own
            /\ pc[m] = "idle" =>
                  /\ cache' = cache
                  /\ redis'[m][1].value = (IF cache[own].ttl > 0 THEN cache[own].tok ELSE "")
            /\ \A o \in Msgs \ {m} :
                  /\ status'[o] = status[o]
                  /\ result'[o] = result[o]
                  /\ pc'[o] = pc[o]
                  /\ token'[o] = token[o]
                  /\ wire'[o] = wire[o]
                  /\ redis'[o] = redis[o]

\* C14: invocations for different channels are independent: an invocation
\* for channel A reads and writes only the cache entry of A, and changes
\* neither another channel's entry nor the status of another invocation,
\* however the invocations interleave.
C14_ChannelsIndependent == [][\A m \in Msgs : C14_Frame(m)]_vars

C14_Witness ==
    /\ chan["m1"] = "c1"
    /\ chan["m2"] = "c2"
    /\ pc["m1"] = "send"
    /\ pc["m2"] = "done"
    /\ Len(redis["m1"]) = 2
    /\ Len(redis["m2"]) = 2
    /\ cache["hm_token_c1"].tok = "t1"
    /\ cache["hm_token_c2"].tok = "t2"
    /\ status["m2"].state = MsgWired
    /\ status["m1"].state = MsgErrored

\* C20: a send request is only made by an invocation that holds a non-empty
\* token, the one its GET returned or the one its own token exchange
\* returned, and every part's request of the invocation carries that token,
\* also when the entry of the cache has expired or been overwritten since.
C20_SameTokenOnEveryPart ==
    \A m \in Msgs :
        pc[m] = "send" \/ Sends(m) # <<>> =>
            /\ token[m] # ""
            /\ LookupHit(m) \/ Fetched(m)
            /\ token[m] = OwnToken(m)
            /\ \A k \in 1..Len(Sends(m)) : Sends(m)[k].auth = token[m]

C20_Witness ==
    \E m \in Msgs :
        /\ pc[m] = "done"
        /\ Len(Sends(m)) = 2
        /\ Sends(m)[1].auth = "t1"
        /\ Sends(m)[2].auth = "t1"
        /\ Sends(m)[2].ok
        /\ \E o \in Msgs \ {m} :
              /\ chan[o] = chan[m]
              /\ Len(redis[o]) = 2
              /\ redis[o][2].value = "t2"
        /\ cache["hm_token_" \o chan[m]] = NoEntry
        /\ latest["hm_token_" \o chan[m]] = "t2"
====
